---- MODULE Spec2Model ----
(***************************************************************************)
(* netbox-prometheus-sd: one run of Discovery.run (inventory listing, the  *)
(* per-object loop of gen_targets / discover_circuit, then the staged      *)
(* write of the document), and the write steps of two overlapping runs     *)
(* with a reader of the output path.                                       *)
(*                                                                         *)
(* Text is modelled by token sequences: a JSON text is the sequence of its *)
(* tokens, a CIDR address the sequence <<host, "/", prefix>>.  An optional *)
(* Python value is a sequence of length at most one (<<>> is None).        *)
(***************************************************************************)
EXTENDS Naturals, Sequences, FiniteSets, TLC

VARIABLES args, items, idx, targets, pc, err, fs, fd, stdout

vars == <<args, items, idx, targets, pc, err, fs, fd, stdout>>

\* ------------------------------------------------------------------------
\* Bounds
\* ------------------------------------------------------------------------
MaxItems == 2

\* ------------------------------------------------------------------------
\* json.loads on the token sequence of a custom-field text
\* ------------------------------------------------------------------------
Punct == {"{", "}", "[", "]", ":", ","}

IsScalarTok(t, i) == i <= Len(t) /\ t[i] \notin Punct

Tok(t, i) == IF i <= Len(t) THEN t[i] ELSE "<eof>"

ParseFail == [ok |-> FALSE, kind |-> "none", dict |-> <<>>, list |-> <<>>, next |-> 0]

DictVal(d, n) == [ok |-> TRUE, kind |-> "dict", dict |-> d, list |-> <<>>, next |-> n]

ListVal(l, n) == [ok |-> TRUE, kind |-> "list", dict |-> <<>>, list |-> l, next |-> n]

ScalarVal(n) == [ok |-> TRUE, kind |-> "scalar", dict |-> <<>>, list |-> <<>>, next |-> n]

RECURSIVE ParsePairs(_, _, _)
\* members of an object from position i on; a repeated key keeps the last value
ParsePairs(t, i, acc) ==
    IF IsScalarTok(t, i) /\ Tok(t, i + 1) = ":" /\ IsScalarTok(t, i + 2)
    THEN LET acc2 == (t[i] :> t[i + 2]) @@ acc
         IN  CASE Tok(t, i + 3) = "," -> ParsePairs(t, i + 4, acc2)
               [] Tok(t, i + 3) = "}" -> DictVal(acc2, i + 4)
               [] OTHER -> ParseFail
    ELSE ParseFail

ParseObject(t, i) ==
    IF Tok(t, i + 1) = "}" THEN DictVal(<<>>, i + 2) ELSE ParsePairs(t, i + 1, <<>>)

ParseElement(t, i) ==
    CASE Tok(t, i) = "{" -> ParseObject(t, i)
      [] IsScalarTok(t, i) -> ScalarVal(i + 1)
      [] OTHER -> ParseFail

RECURSIVE ParseElems(_, _, _)
ParseElems(t, i, acc) ==
    LET e == ParseElement(t, i)
    IN  IF ~e.ok THEN ParseFail
        ELSE LET acc2 == Append(acc, [kind |-> e.kind, dict |-> e.dict])
             IN  CASE Tok(t, e.next) = "," -> ParseElems(t, e.next + 1, acc2)
                   [] Tok(t, e.next) = "]" -> ListVal(acc2, e.next + 1)
                   [] OTHER -> ParseFail

ParseArray(t, i) ==
    IF Tok(t, i + 1) = "]" THEN ListVal(<<>>, i + 2) ELSE ParseElems(t, i + 1, <<>>)

ParseValue(t, i) ==
    CASE Tok(t, i) = "[" -> ParseArray(t, i)
      [] OTHER -> ParseElement(t, i)

\* json.loads: the whole text must be one value; anything else raises ValueError
json_loads(t) ==
    LET v == ParseValue(t, 1)
    IN  IF v.ok /\ v.next = Len(t) + 1 THEN v ELSE ParseFail

\* ------------------------------------------------------------------------
\* str(netaddr.IPNetwork(address).ip)
\* ------------------------------------------------------------------------
HostTokens == {"10.0.0.5", "10.0.0.6", "10.1.1.1", "10.1.1.2", "10.1.1.3"}

PrefixTokens == {"24", "30"}

ValidCidr(a) ==
    \/ Len(a) = 1 /\ a[1] \in HostTokens
    \/ Len(a) = 3 /\ a[1] \in HostTokens /\ a[2] = "/" /\ a[3] \in PrefixTokens

\* exc is the exception raised ("" when none), ip the bare host address
BareIp(a) ==
    IF ValidCidr(a) THEN [exc |-> "", ip |-> a[1]]
    ELSE [exc |-> "AddrFormatError", ip |-> ""]

\* ------------------------------------------------------------------------
\* Command line (main): port default 10000, custom field, output, discovery
\* ------------------------------------------------------------------------
DefaultPort == 10000

\* str(self.args.port): the decimal text of the configured port
Str(n) == IF n = 10000 THEN "10000" ELSE "9000"

StdoutSentinel == "-"

OutPath == "targets.json"

\* '{}.tmp'.format(self.args.output)
TempName(output) == output \o ".tmp"

Modes == {"device", "vm", "circuit"}

\* ------------------------------------------------------------------------
\* Custom-field values of the inventory snapshot
\* ------------------------------------------------------------------------
TxtObj == <<"{", "job", ":", "node", "}">>

TxtPort == <<"{", "__port__", ":", "9100", ",", "__meta_netbox_name", ":", "alias", "}">>

TxtArr0 == <<"[", "]">>

TxtArr2 == <<"[", "{", "__port__", ":", "9100", ",", "job", ":", "a", "}", ",",
             "{", "env", ":", "prod", "}", "]">>

TxtTrailingComma == <<"{", "job", ":", "node", ",", "}">>

TxtUnclosed == <<"[", "{", "job", ":", "a", "}">>

TxtScalar == <<"5">>

CfMissing == [haskey |-> FALSE, val |-> <<>>]

CfNull == [haskey |-> TRUE, val |-> <<>>]

CfText(t) == [haskey |-> TRUE, val |-> <<t>>]

GoodTexts == {TxtObj, TxtPort, TxtArr0, TxtArr2}

BadTexts == {TxtTrailingComma, TxtUnclosed}

CfValues == {CfMissing, CfNull, CfText(<<>>)}
              \cup {CfText(t) : t \in GoodTexts \cup BadTexts \cup {TxtScalar}}

\* custom_fields.get(name): None for a missing key
CfGet(cf) == IF cf.haskey THEN cf.val ELSE <<>>

\* Python truth of the fetched value: None and '' are false
Falsy(v) == v = <<>> \/ v[1] = <<>>

\* ------------------------------------------------------------------------
\* Devices and virtual machines as returned by filter(has_primary_ip=True)
\* ------------------------------------------------------------------------
Device(id, name, site, cf, addr) ==
    [id |-> id, name |-> name, site |-> site, custom_fields |-> cf,
     primary_ip |-> <<[address |-> addr]>>, address |-> <<>>]

Addr1 == <<"10.0.0.5", "/", "24">>

Addr2 == <<"10.0.0.6">>

AddrBad == <<"10.0.0.6", "/", "xx">>

DevicePool ==
    {Device("d1", <<"edge1">>, <<"pop1">>, cf, Addr1) : cf \in CfValues}
      \cup {Device("d2", <<>>, <<>>, CfText(t), a) : t \in {TxtObj, TxtArr0}, a \in {Addr2, AddrBad}}

\* repr(item) of an inventory record
Repr(item) == "<" \o item.id \o ">"

\* ------------------------------------------------------------------------
\* Label maps and target groups
\* ------------------------------------------------------------------------
\* d.update(other) on a dict: keys of other win, the other keys of d stay
Update(d, other) == other @@ d

\* variant: update applied to the baseline itself (no copy)
AliasUpdate(labels, target) ==
    [base |-> Update(labels, target), merged |-> Update(labels, target)]

\* target_labels = labels.copy(); target_labels.update(target)
\* base is the baseline dict after the statement, merged the new dict
CopyUpdate(labels, target) == [base |-> labels, merged |-> Update(labels, target)]

\* variant: the endpoint takes the configured default port
EndpointDefaultPort(host, target_labels) == host \o ":" \o "10000"

\* '%s:%s' % (host, target_labels['__port__'])
Endpoint(host, target_labels) == host \o ":" \o target_labels["__port__"]

TargetGroup(host, target_labels) ==
    [targets |-> <<Endpoint(host, target_labels)>>, labels |-> target_labels]

\* variant: a single mapping is not wrapped into a list
AsListNoWrap(v) == IF v.kind = "list" THEN v.list ELSE <<>>

\* if not isinstance(v, list): v = [v]
AsList(v) == IF v.kind = "list" THEN v.list ELSE <<[kind |-> v.kind, dict |-> v.dict]>>

RECURSIVE EmitTargets(_, _, _, _, _)
\* the loop "for target in item_targets"; host is evaluated in each iteration
\* (exc is what it raises there); an element that is not a mapping makes
\* update raise
EmitTargets(labels, item_targets, k, host, acc) ==
    IF k > Len(item_targets) THEN [exc |-> "", out |-> acc]
    ELSE IF item_targets[k].kind # "dict" THEN [exc |-> "TypeError", out |-> acc]
    ELSE IF host.exc # "" THEN [exc |-> host.exc, out |-> acc]
    ELSE LET r == CopyUpdate(labels, item_targets[k].dict)
         IN  EmitTargets(r.base, item_targets, k + 1, host,
                         Append(acc, TargetGroup(host.ip, r.merged)))

\* baseline labels of a device or virtual machine
ItemLabels(item, a) ==
    LET l1 == "__port__" :> Str(a.port)
        l2 == Update(l1, "__meta_netbox_name" :>
                         (IF item.name # <<>> /\ item.name[1] # "" THEN item.name[1]
                          ELSE Repr(item)))
    IN  IF item.site # <<>> THEN Update(l2, "__meta_netbox_pop" :> item.site[1]) ELSE l2

\* address = item.primary_ip if hasattr(item, 'primary_ip') else item
ItemAddress(item) ==
    IF item.primary_ip # <<>> THEN item.primary_ip[1].address ELSE item.address

\* one iteration of "for item in items" of gen_targets
GenItem(item, a) ==
    IF Falsy(CfGet(item.custom_fields)) THEN [exc |-> "", out |-> <<>>]
    ELSE LET labels == ItemLabels(item, a)
             parsed == json_loads(item.custom_fields.val[1])
         IN  IF ~parsed.ok THEN [exc |-> "", out |-> <<>>]
             ELSE EmitTargets(labels, AsList(parsed), 1, BareIp(ItemAddress(item)), <<>>)

\* ------------------------------------------------------------------------
\* Circuits: each reference carries what the inventory query on it returns.
\* res is "ok", "notfound" (get returns None) or "RequestError" (get raises)
\* ------------------------------------------------------------------------
DevRef(id, res, hasattr, ip) ==
    [id |-> id, res |-> res, has_primary_ip |-> hasattr, primary_ip |-> ip]

IpRec(a) == [address |-> a]

Ips(res, list) == [res |-> res, list |-> list]

Side(dev, name, ips) == [device |-> <<dev>>, name |-> name, ips |-> ips]

\* a cable end that is not bound to a device
NoSide == [device |-> <<>>, name |-> "", ips |-> Ips("ok", <<>>)]

Cable(res, a, b) == [res |-> res, termination_a |-> a, termination_b |-> b]

Term(res, cable) == [res |-> res, cable |-> cable]

Circuit(id, cid, cf, ta, tz) ==
    [id |-> id, cid |-> cid, custom_fields |-> cf, termination_a |-> ta, termination_z |-> tz]

DevOk1 == DevRef("r1", "ok", TRUE, <<IpRec(<<"10.1.1.1", "/", "24">>)>>)

DevOk3 == DevRef("r3", "ok", TRUE, <<IpRec(<<"10.1.1.3">>)>>)

DevNoAttr == DevRef("r4", "ok", FALSE, <<>>)

DevNullIp == DevRef("r5", "ok", TRUE, <<>>)

DevBadIp == DevRef("r6", "ok", TRUE, <<IpRec(<<"10.1.1.1", "/", "xx">>)>>)

DevRaises == DevRef("r7", "RequestError", FALSE, <<>>)

DevGone == DevRef("r8", "notfound", FALSE, <<>>)

NoIps == Ips("ok", <<>>)

OneIp == Ips("ok", <<IpRec(<<"10.1.1.2", "/", "30">>)>>)

TwoIps == Ips("ok", <<IpRec(<<"10.1.1.2", "/", "30">>), IpRec(<<"10.1.1.3">>)>>)

BadIps == Ips("ok", <<IpRec(<<"10.1.1.2", "/", "xx">>)>>)

IpsRaise == Ips("RequestError", <<>>)

TermAOk == Term("ok", Cable("ok", Side(DevOk1, "eth0", NoIps), NoSide))

TermZOk == Term("ok", Cable("ok", Side(DevOk3, "eth1", OneIp), NoSide))

FailedTerms ==
    {Term("ok", Cable("RequestError", NoSide, NoSide)),
     Term("ok", Cable("notfound", NoSide, NoSide)),
     Term("RequestError", Cable("ok", NoSide, NoSide)),
     Term("notfound", Cable("ok", NoSide, NoSide))}

TermsA ==
    {Term("ok", Cable("ok", Side(d, "eth0", NoIps), NoSide)) :
        d \in {DevOk1, DevNoAttr, DevNullIp, DevBadIp, DevRaises, DevGone}}
      \cup {Term("ok", Cable("ok", NoSide, Side(DevOk3, "eth0", NoIps))),
            Term("ok", Cable("ok", Side(DevOk1, "eth0", NoIps), Side(DevOk3, "eth2", NoIps))),
            Term("ok", Cable("ok", NoSide, NoSide))}
      \cup FailedTerms

TermsZ ==
    {Term("ok", Cable("ok", Side(DevOk3, "eth1", i), NoSide)) :
        i \in {OneIp, TwoIps, NoIps, BadIps, IpsRaise}}
      \cup {Term("ok", Cable("ok", NoSide, Side(DevOk1, "eth1", OneIp))),
            Term("ok", Cable("ok", Side(DevOk3, "eth1", TwoIps), Side(DevOk1, "eth2", OneIp))),
            Term("ok", Cable("ok", NoSide, NoSide)),
            Term("ok", Cable("notfound", NoSide, NoSide)),
            Term("RequestError", Cable("ok", NoSide, NoSide))}

CircuitPool ==
    {Circuit("c1", <<"C-100">>, CfText(TxtArr2), a, TermZOk) : a \in TermsA}
      \cup {Circuit("c2", <<>>, CfText(TxtObj), TermAOk, z) : z \in TermsZ}
      \cup {Circuit("c3", <<"C-300">>, cf, TermAOk, TermZOk) :
              cf \in {CfMissing, CfText(<<>>), CfText(TxtPort), CfText(TxtArr0),
                      CfText(TxtUnclosed), CfText(TxtScalar)}}
      \cup {Circuit("c4", <<"C-400">>, CfText(TxtTrailingComma), a, z) :
              a \in {TermAOk, Term("ok", Cable("ok", NoSide, NoSide))},
              z \in {Term("ok", Cable("ok", Side(DevOk3, "eth1", NoIps), NoSide))}}
      \cup {Circuit("c5", <<"C-500">>, CfMissing, Term("ok", Cable("RequestError", NoSide, NoSide)), TermZOk)}

\* "prefer side A, else side B, else give up": the end of the cable that has
\* a device with an id
PickSide(cable) ==
    IF cable.termination_a.device # <<>> THEN <<cable.termination_a>>
    ELSE IF cable.termination_b.device # <<>> THEN <<cable.termination_b>>
    ELSE <<>>

\* cables.get(t.cable.id) and the debug line that reads cable.id; t is the
\* fetched termination (<<>> is None)
FetchCable(t) ==
    IF t = <<>> THEN [exc |-> "AttributeError", cable |-> <<>>]
    ELSE CASE t[1].cable.res = "RequestError" -> [exc |-> "RequestError", cable |-> <<>>]
           [] t[1].cable.res = "notfound" -> [exc |-> "AttributeError", cable |-> <<>>]
           [] OTHER -> [exc |-> "", cable |-> <<t[1].cable>>]

Raise(e) == [exc |-> e, ip |-> <<>>]

Return(v) == [exc |-> "", ip |-> v]

\* str(netaddr.IPNetwork(rec.address).ip) of an address record, None included
BareIpOf(rec) ==
    IF rec = <<>> THEN Raise("AttributeError")
    ELSE LET b == BareIp(rec[1].address)
         IN  IF b.exc # "" THEN Raise(b.exc) ELSE Return(<<b.ip>>)

get_terminal_a_ip(ta) ==
    LET c == FetchCable(ta)
    IN  IF c.exc # "" THEN Raise(c.exc)
        ELSE LET side == PickSide(c.cable[1])
             IN  IF side = <<>> THEN Return(<<>>)
                 ELSE LET device == side[1].device[1]
                      IN  CASE device.res = "RequestError" -> Raise("RequestError")
                            [] device.res = "notfound" -> Return(<<>>)
                            [] OTHER -> IF device.has_primary_ip
                                        THEN BareIpOf(device.primary_ip)
                                        ELSE Return(<<>>)

get_terminal_z_ip(tz) ==
    LET c == FetchCable(tz)
    IN  IF c.exc # "" THEN Raise(c.exc)
        ELSE LET side == PickSide(c.cable[1])
             IN  IF side = <<>> THEN Return(<<>>)
                 ELSE LET ip == side[1].ips
                      IN  IF ip.res = "RequestError" THEN Return(<<>>)
                          ELSE IF ip.list = <<>> THEN Raise("IndexError")
                          ELSE BareIpOf(<<ip.list[1]>>)

\* circuit_terminations.get(t.id): the termination, None when not found
FetchTerm(t) == IF t.res = "ok" THEN <<t>> ELSE <<>>

get_circuit_ip(circuit) ==
    IF circuit.termination_a.res = "RequestError" \/ circuit.termination_z.res = "RequestError"
    THEN [exc |-> "", ipa |-> <<>>, ipz |-> <<>>]
    ELSE LET a == get_terminal_a_ip(FetchTerm(circuit.termination_a))
         IN  IF a.exc # "" THEN [exc |-> a.exc, ipa |-> <<>>, ipz |-> <<>>]
             ELSE LET z == get_terminal_z_ip(FetchTerm(circuit.termination_z))
                  IN  IF z.exc # "" THEN [exc |-> z.exc, ipa |-> <<>>, ipz |-> <<>>]
                      ELSE [exc |-> "", ipa |-> a.ip, ipz |-> z.ip]

\* baseline labels of a circuit
CircuitLabels(circuit, a, ipz) ==
    LET l1 == "__port__" :> Str(a.port)
        l2 == Update(l1, "__meta_netbox_name" :>
                         (IF circuit.cid # <<>> /\ circuit.cid[1] # "" THEN circuit.cid[1]
                          ELSE Repr(circuit)))
    IN  Update(l2, "__meta_netbox_target" :> ipz)

\* the scrape host of a circuit's target groups
CircuitHost(ipa, ipz) == [exc |-> "", ip |-> ipa]

\* one iteration of "for circuit in ..." of discover_circuit
DiscoverCircuitItem(circuit, a) ==
    IF Falsy(CfGet(circuit.custom_fields)) THEN [exc |-> "", out |-> <<>>]
    ELSE LET r == get_circuit_ip(circuit)
         IN  IF r.exc # "" THEN [exc |-> r.exc, out |-> <<>>]
             ELSE IF r.ipa = <<>> \/ r.ipz = <<>> THEN [exc |-> "", out |-> <<>>]
             ELSE LET labels == CircuitLabels(circuit, a, r.ipz[1])
                      parsed == json_loads(circuit.custom_fields.val[1])
                  IN  IF ~parsed.ok THEN [exc |-> "", out |-> <<>>]
                      ELSE EmitTargets(labels, AsList(parsed), 1,
                                       CircuitHost(r.ipa[1], r.ipz[1]), <<>>)

\* ------------------------------------------------------------------------
\* Files.  names maps a path to its inode (0: no such file), data an inode
\* to its content, a sequence of written chunks
\* ------------------------------------------------------------------------
Runs == {1, 2}

\* the run that Spec follows from its start
Main == 1

Inodes == 1 .. 4

TmpPath == TempName(OutPath)

Paths == {OutPath, TmpPath}

GroupChunk(g) == [tag |-> "group", body |-> <<g>>]

Newline == [tag |-> "newline", body |-> <<>>]

Hole == [tag |-> "hole", body |-> <<>>]

\* what json.dump(targets, output, indent=4) and output.write('\n') write
Doc(t) == [i \in 1 .. Len(t) + 1 |-> IF i <= Len(t) THEN GroupChunk(t[i]) ELSE Newline]

\* the document left at the output path by an earlier run
PriorDoc == Doc(<<TargetGroup("10.0.0.5", "__port__" :> "10000")>>)

NoFiles == [names |-> [p \in Paths |-> 0], data |-> [i \in Inodes |-> <<>>]]

PriorFiles == [names |-> [p \in Paths |-> IF p = OutPath THEN 1 ELSE 0],
               data |-> [i \in Inodes |-> IF i = 1 THEN PriorDoc ELSE <<>>]]

\* a prior output and a staging file left by a run that died while writing
StaleFiles == [names |-> [p \in Paths |-> IF p = OutPath THEN 1 ELSE 2],
               data |-> [i \in Inodes |-> IF i = 1 THEN PriorDoc
                                          ELSE IF i = 2 THEN <<Hole>> ELSE <<>>]]

InitialFiles == {NoFiles, PriorFiles, StaleFiles}

InUse(f, h) == {f.names[p] : p \in Paths} \cup {h[r].ino : r \in Runs}

FreshInode(f, h) == CHOOSE i \in Inodes : i \notin InUse(f, h) /\ \A j \in Inodes : j < i => j \in InUse(f, h)

\* open(path, 'w'): truncate the file of that name, or create it
OpenW(f, h, path) ==
    IF f.names[path] # 0
    THEN [names |-> f.names, data |-> [f.data EXCEPT ![f.names[path]] = <<>>]]
    ELSE LET n == FreshInode(f, h)
         IN  [names |-> [f.names EXCEPT ![path] = n], data |-> [f.data EXCEPT ![n] = <<>>]]

\* write of one chunk at position pos of a file; a gap before pos reads as holes
WriteAt(c, pos, chunk) ==
    [i \in 1 .. (IF Len(c) > pos THEN Len(c) ELSE pos) |->
        IF i = pos THEN chunk ELSE IF i <= Len(c) THEN c[i] ELSE Hole]

\* os.rename(src, dst): dst now names src's file, src is gone
Rename(f, src, dst) == [names |-> [f.names EXCEPT ![dst] = f.names[src], ![src] = 0],
                        data |-> f.data]

Closed == [ino |-> 0, pos |-> 1]

\* ------------------------------------------------------------------------
\* State machine of Discovery.run
\* ------------------------------------------------------------------------
Pool(mode) == IF mode = "circuit" THEN CircuitPool ELSE DevicePool

SeqsUpTo(S, n) == UNION {[1 .. k -> S] : k \in 0 .. n}

Args(mode, output) == [discovery |-> mode, output |-> output, port |-> DefaultPort]

\* main: the parsed arguments, the inventory snapshot the listing will
\* return, and the files present when the run starts; run 2 is not started
Init ==
    /\ \E mode \in Modes, output \in {StdoutSentinel, OutPath} : args = Args(mode, output)
    /\ \E s \in SeqsUpTo(Pool(args.discovery), MaxItems) :
          items = [r \in Runs |-> IF r = Main THEN s ELSE <<>>]
    /\ idx = [r \in Runs |-> 1]
    /\ targets = [r \in Runs |-> <<>>]
    /\ pc = [r \in Runs |-> IF r = Main THEN "fetch" ELSE "off"]
    /\ err = [r \in Runs |-> ""]
    /\ fs \in (IF args.output = StdoutSentinel THEN {NoFiles} ELSE InitialFiles)
    /\ fd = [r \in Runs |-> Closed]
    /\ stdout = <<>>

Abort(r, e) ==
    /\ pc' = [pc EXCEPT ![r] = "aborted"]
    /\ err' = [err EXCEPT ![r] = e]

\* variant: the staging file is opened before the listing
FetchInventoryOpensEarly ==
    \E r \in Runs, ok \in BOOLEAN :
        /\ pc[r] = "fetch"
        /\ fs' = IF args.output = StdoutSentinel THEN fs ELSE OpenW(fs, fd, TempName(args.output))
        /\ IF ok THEN pc' = [pc EXCEPT ![r] = "discover"] /\ err' = err
           ELSE Abort(r, "ListingError")
        /\ UNCHANGED <<args, items, idx, targets, fd, stdout>>

\* the listing call of discover_device / discover_vm / discover_circuit;
\* a listing that fails ends the run
FetchInventory ==
    \E r \in Runs, ok \in BOOLEAN :
        /\ pc[r] = "fetch"
        /\ IF ok THEN pc' = [pc EXCEPT ![r] = "discover"] /\ err' = err
           ELSE Abort(r, "ListingError")
        /\ UNCHANGED <<args, items, idx, targets, fs, fd, stdout>>

\* one iteration of the loop of gen_targets or of discover_circuit
ItemStep(r, res) ==
    /\ IF res.exc # ""
       THEN Abort(r, res.exc) /\ UNCHANGED <<targets, idx>>
       ELSE /\ targets' = [targets EXCEPT ![r] = @ \o res.out]
            /\ idx' = [idx EXCEPT ![r] = @ + 1]
            /\ UNCHANGED <<pc, err>>
    /\ UNCHANGED <<args, items, fs, fd, stdout>>

GenTargetsStep ==
    \E r \in Runs :
        /\ pc[r] = "discover"
        /\ args.discovery \in {"device", "vm"}
        /\ idx[r] <= Len(items[r])
        /\ ItemStep(r, GenItem(items[r][idx[r]], args))

DiscoverCircuitStep ==
    \E r \in Runs :
        /\ pc[r] = "discover"
        /\ args.discovery = "circuit"
        /\ idx[r] <= Len(items[r])
        /\ ItemStep(r, DiscoverCircuitItem(items[r][idx[r]], args))

\* return targets, then the choice of the output
ReturnTargets ==
    \E r \in Runs :
        /\ pc[r] = "discover"
        /\ idx[r] > Len(items[r])
        /\ pc' = [pc EXCEPT ![r] = IF args.output = StdoutSentinel THEN "dump_stdout" ELSE "open"]
        /\ UNCHANGED <<args, items, idx, targets, err, fs, fd, stdout>>

\* output = open(temp_file, 'w')
OpenTemp ==
    \E r \in Runs :
        /\ pc[r] = "open"
        /\ fs' = OpenW(fs, fd, TempName(args.output))
        /\ fd' = [fd EXCEPT ![r] = [ino |-> fs'.names[TempName(args.output)], pos |-> 1]]
        /\ pc' = [pc EXCEPT ![r] = "dump"]
        /\ UNCHANGED <<args, items, idx, targets, err, stdout>>

\* json.dump and the final newline reaching the staging file, chunk by chunk
DumpFile ==
    \E r \in Runs :
        /\ pc[r] = "dump"
        /\ fs' = [fs EXCEPT !.data[fd[r].ino] = WriteAt(@, fd[r].pos, Doc(targets[r])[fd[r].pos])]
        /\ fd' = [fd EXCEPT ![r].pos = @ + 1]
        /\ pc' = [pc EXCEPT ![r] = IF fd[r].pos = Len(Doc(targets[r])) THEN "close" ELSE "dump"]
        /\ UNCHANGED <<args, items, idx, targets, err, stdout>>

\* output.close()
CloseFile ==
    \E r \in Runs :
        /\ pc[r] = "close"
        /\ fd' = [fd EXCEPT ![r] = Closed]
        /\ pc' = [pc EXCEPT ![r] = "rename"]
        /\ UNCHANGED <<args, items, idx, targets, err, fs, stdout>>

\* os.rename(temp_file, self.args.output)
RenameTemp ==
    \E r \in Runs :
        /\ pc[r] = "rename"
        /\ IF fs.names[TempName(args.output)] = 0
           THEN Abort(r, "FileNotFoundError") /\ fs' = fs
           ELSE /\ fs' = Rename(fs, TempName(args.output), args.output)
                /\ pc' = [pc EXCEPT ![r] = "done"]
                /\ err' = err
        /\ UNCHANGED <<args, items, idx, targets, fd, stdout>>

\* json.dump and the final newline written to sys.stdout
DumpStdout ==
    \E r \in Runs :
        /\ pc[r] = "dump_stdout"
        /\ stdout' = stdout \o Doc(targets[r])
        /\ pc' = [pc EXCEPT ![r] = "flush"]
        /\ UNCHANGED <<args, items, idx, targets, err, fs, fd>>

\* output.flush()
FlushStdout ==
    \E r \in Runs :
        /\ pc[r] = "flush"
        /\ pc' = [pc EXCEPT ![r] = "done"]
        /\ UNCHANGED <<args, items, idx, targets, err, fs, fd, stdout>>

Next ==
    \/ FetchInventory
    \/ GenTargetsStep
    \/ DiscoverCircuitStep
    \/ ReturnTargets
    \/ OpenTemp
    \/ DumpFile
    \/ CloseFile
    \/ RenameTemp
    \/ DumpStdout
    \/ FlushStdout

Spec == Init /\ [][Next]_vars

\* ------------------------------------------------------------------------
\* Two overlapping runs (e.g. overlapping cron invocations) with the same
\* output path, from the point where both have finished discovery
\* ------------------------------------------------------------------------
RECURSIVE gen_targets(_, _, _, _)
\* the whole loop of gen_targets over a listing without failing objects
gen_targets(its, k, a, acc) ==
    IF k > Len(its) THEN acc
    ELSE gen_targets(its, k + 1, a, acc \o GenItem(its[k], a).out)

Listings ==
    {<<>>,
     <<Device("d1", <<"edge1">>, <<"pop1">>, CfText(TxtArr2), Addr1)>>,
     <<Device("d2", <<>>, <<>>, CfText(TxtObj), Addr2)>>}

InitConc ==
    /\ args = Args("device", OutPath)
    /\ items \in [Runs -> Listings]
    /\ idx = [r \in Runs |-> Len(items[r]) + 1]
    /\ targets = [r \in Runs |-> gen_targets(items[r], 1, args, <<>>)]
    /\ pc = [r \in Runs |-> "open"]
    /\ err = [r \in Runs |-> ""]
    /\ fs \in InitialFiles
    /\ fd = [r \in Runs |-> Closed]
    /\ stdout = <<>>

NextConc ==
    \/ OpenTemp
    \/ DumpFile
    \/ CloseFile
    \/ RenameTemp

SpecConc == InitConc /\ [][NextConc]_vars

\* ------------------------------------------------------------------------
\* Properties
\* ------------------------------------------------------------------------
Current(r) == items[r][idx[r]]

InLoop(r) == pc[r] = "discover" /\ idx[r] <= Len(items[r])

\* the iteration on the current object ended without raising
Processed(r) == InLoop(r) /\ pc'[r] = "discover" /\ idx'[r] = idx[r] + 1

\* the target groups the current iteration appended
NewGroups(r) == SubSeq(targets'[r], Len(targets[r]) + 1, Len(targets'[r]))

\* the run died in the iteration on object i
AbortedAt(r, i) ==
    /\ pc[r] = "aborted"
    /\ err[r] # "ListingError"
    /\ i = idx[r]
    /\ i <= Len(items[r])

FieldSet(it) == ~Falsy(CfGet(it.custom_fields))

FieldText(it) == it.custom_fields.val[1]

\* the object's address is resolvable: a valid primary address, or for a
\* circuit both endpoints resolved
Resolvable(it) ==
    IF args.discovery = "circuit"
    THEN LET r == get_circuit_ip(it) IN r.exc = "" /\ r.ipa # <<>> /\ r.ipz # <<>>
    ELSE ValidCidr(ItemAddress(it))

\* number of label maps written in a well-formed text
MapsIn(t) == Cardinality({i \in 1 .. Len(t) : t[i] = "{"})

\* the override elements of the current object
Overrides(it) == AsList(json_loads(FieldText(it)))

Baseline(it) ==
    IF args.discovery = "circuit"
    THEN CircuitLabels(it, args, get_circuit_ip(it).ipz[1])
    ELSE ItemLabels(it, args)

\* C2: an eligible object with a resolvable address contributes 0 target
\* groups when its custom field is missing, null or empty, 1 when the text is
\* a single JSON object, N when it is an array of N label maps, in array order
C2_GroupCountFollowsField ==
    [][\A r \in Runs :
        (InLoop(r) /\ Resolvable(Current(r))
           /\ (FieldSet(Current(r)) => FieldText(Current(r)) \in GoodTexts))
        => /\ Processed(r)
           /\ Len(NewGroups(r)) =
                (IF ~FieldSet(Current(r)) THEN 0
                 ELSE IF FieldText(Current(r))[1] = "{" THEN 1
                 ELSE MapsIn(FieldText(Current(r))))
           /\ \A j \in 1 .. Len(NewGroups(r)) :
                \A k \in DOMAIN Overrides(Current(r))[j].dict :
                    NewGroups(r)[j].labels[k] = Overrides(Current(r))[j].dict[k]]_vars

C2_Witness ==
    /\ pc[Main] = "done"
    /\ Len(items[Main]) = 2
    /\ items[Main][1].custom_fields = CfText(TxtArr2)
    /\ items[Main][2].custom_fields = CfNull
    /\ Len(targets[Main]) = 2

\* C4: while a run is listing or discovering, no file and no stream is
\* created, truncated or written, so a run that aborts there leaves the
\* output and staging files as they were
C4_NoOutputBeforeDiscoveryEnds ==
    [][\A r \in Runs :
        pc[r] \in {"fetch", "discover"} => (fs' = fs /\ fd' = fd /\ stdout' = stdout)]_vars

C4_Witness ==
    /\ pc[Main] = "aborted"
    /\ idx[Main] = 2
    /\ err[Main] = "AddrFormatError"
    /\ fs = StaleFiles

\* C8: the labels of the i-th emitted group are the object's baseline merged
\* with override element i alone: override keys take the override's value,
\* the other baseline keys keep theirs, and there is no other key
C8_LabelsAreBaselineMergedWithOwnOverride ==
    [][\A r \in Runs :
        (Processed(r) /\ Len(NewGroups(r)) > 0)
        => /\ Len(NewGroups(r)) = Len(Overrides(Current(r)))
           /\ \A j \in 1 .. Len(NewGroups(r)) :
                LET ov == Overrides(Current(r))[j].dict
                    base == Baseline(Current(r))
                    got == NewGroups(r)[j].labels
                IN  /\ DOMAIN got = DOMAIN base \cup DOMAIN ov
                    /\ \A k \in DOMAIN ov : got[k] = ov[k]
                    /\ \A k \in DOMAIN base \ DOMAIN ov : got[k] = base[k]]_vars

C8_Witness ==
    /\ pc[Main] = "done"
    /\ Len(targets[Main]) = 3
    /\ "job" \in DOMAIN targets[Main][1].labels
    /\ "env" \in DOMAIN targets[Main][2].labels
    /\ "job" \notin DOMAIN targets[Main][2].labels
    /\ targets[Main][3].labels["__meta_netbox_name"] = "alias"

\* the device whose primary address is the A-side host of a circuit
ASideDevice(c) ==
    LET cab == c.termination_a.cable
    IN  IF cab.termination_a.device # <<>> THEN cab.termination_a.device[1]
        ELSE cab.termination_b.device[1]

ExpectedHost(it) ==
    IF args.discovery = "circuit" THEN ASideDevice(it).primary_ip[1].address[1]
    ELSE it.primary_ip[1].address[1]

\* C9: every emitted group has exactly one endpoint host:port, port being the
\* group's own __port__ label (the default unless its override sets it) and
\* host the bare primary address of the object, for a circuit of its A side;
\* the written document holds exactly these groups
C9_EndpointIsHostAndOwnPort ==
    /\ [][\A r \in Runs :
            Processed(r)
            => \A j \in 1 .. Len(NewGroups(r)) :
                 LET g == NewGroups(r)[j]
                     ov == Overrides(Current(r))[j].dict
                 IN  /\ Len(g.targets) = 1
                     /\ g.targets[1] = ExpectedHost(Current(r)) \o ":" \o g.labels["__port__"]
                     /\ g.labels["__port__"] =
                          (IF "__port__" \in DOMAIN ov THEN ov["__port__"] ELSE "10000")]_vars
    /\ [](\A r \in Runs :
            (pc[r] = "done" /\ args.output # StdoutSentinel)
            => fs.data[fs.names[args.output]] = Doc(targets[r]))

C9_Witness ==
    /\ args.discovery = "circuit"
    /\ pc[Main] = "done"
    /\ Len(targets[Main]) = 2
    /\ targets[Main][1].targets = <<"10.1.1.3:9100">>
    /\ targets[Main][2].targets = <<"10.1.1.3:10000">>
    /\ targets[Main][1].labels["__meta_netbox_target"] = "10.1.1.2"

\* C1: in every mode, an object whose custom field is non-empty but
\* unparseable never makes the run abort: the run does not die on it
C1_UnparseableFieldNeverAborts ==
    \A r \in Runs : \A i \in 1 .. Len(items[r]) :
        (FieldSet(items[r][i]) /\ FieldText(items[r][i]) \in BadTexts)
        => ~AbortedAt(r, i)

\* the output path names a complete document: the prior one or the whole
\* document of some run
Complete(c) == c = PriorDoc \/ \E r \in Runs : c = Doc(targets[r])

\* C3: whatever the interleaving of the write steps of overlapping runs, the
\* content visible at the output path is always a complete document
C3_OutputPathAlwaysComplete ==
    fs.names[OutPath] # 0 => Complete(fs.data[fs.names[OutPath]])

\* the Z-side cable of the circuit leads to a device and interface for which
\* the address query returns no record
ZSideNoRecords(c) ==
    /\ c.termination_z.res = "ok"
    /\ c.termination_z.cable.res = "ok"
    /\ PickSide(c.termination_z.cable) # <<>>
    /\ PickSide(c.termination_z.cable)[1].ips = NoIps

\* C5: a circuit whose Z-side address query returns no records is skipped
\* and the run continues with the remaining circuits
C5_NoZSideRecordSkipsCircuit ==
    \A r \in Runs : \A i \in 1 .. Len(items[r]) :
        (args.discovery = "circuit" /\ FieldSet(items[r][i]) /\ ZSideNoRecords(items[r][i]))
        => ~AbortedAt(r, i)

\* some inventory query made while resolving the circuit's endpoints fails
QueryFails(c) ==
    \/ c.termination_a.res # "ok"
    \/ c.termination_z.res # "ok"
    \/ c.termination_a.cable.res # "ok"
    \/ c.termination_z.cable.res # "ok"
    \/ /\ PickSide(c.termination_a.cable) # <<>>
       /\ PickSide(c.termination_a.cable)[1].device[1].res # "ok"
    \/ /\ PickSide(c.termination_z.cable) # <<>>
       /\ PickSide(c.termination_z.cable)[1].ips.res # "ok"

\* C6: a failing query during endpoint resolution never propagates: the
\* circuit is skipped and the later circuits are still processed
C6_QueryFailureNeverPropagates ==
    \A r \in Runs : \A i \in 1 .. Len(items[r]) :
        (args.discovery = "circuit" /\ FieldSet(items[r][i]) /\ QueryFails(items[r][i]))
        => ~AbortedAt(r, i)

\* C7: an object whose primary address is not a valid CIDR string is skipped;
\* the run does not abort on it
C7_InvalidAddressSkipsObject ==
    \A r \in Runs : \A i \in 1 .. Len(items[r]) :
        (args.discovery \in {"device", "vm"} /\ ~ValidCidr(ItemAddress(items[r][i])))
        => ~AbortedAt(r, i)

\* the A side of the circuit resolves to no address: no cable end has a
\* device, or the chosen device has no primary IP
ASideHasNoAddress(c) ==
    /\ c.termination_a.res = "ok"
    /\ c.termination_z.res = "ok"
    /\ c.termination_a.cable.res = "ok"
    /\ \/ PickSide(c.termination_a.cable) = <<>>
       \/ /\ ASideDevice(c).res = "ok"
          /\ ASideDevice(c).primary_ip = <<>>

\* C10: when neither cable end of the A side has a device, or the chosen
\* device has no primary IP, the circuit is skipped and the run continues
C10_ASideWithoutAddressSkipsCircuit ==
    \A r \in Runs : \A i \in 1 .. Len(items[r]) :
        (args.discovery = "circuit" /\ FieldSet(items[r][i]) /\ ASideHasNoAddress(items[r][i]))
        => ~AbortedAt(r, i)

====
